---- MODULE Spec2Model ----
(***************************************************************************)
(* The search-result walk of src/tasks.py (async_browsing and the helpers  *)
(* it calls): the pagination loop, the scroll loop of one page, the        *)
(* extraction pass over the list entries, the asyncio.TaskGroup that owns  *)
(* the fetch tasks, the aggregation of the accumulated posts and the       *)
(* try / except / finally that ends the walk.                              *)
(***************************************************************************)
EXTENDS Integers, Sequences, FiniteSets, TLC

\* Bound of the generated inputs: the list entries of a walk, all pages together.
MaxEntries == 3
\* posts is append-only and every extraction pass re-appends the rows of the
\* page; at most MaxCopies equal rows are kept, so that a scroll loop that never
\* ends is a cycle of the state graph. The aggregation deduplicates rows, so
\* the result does not depend on how many copies are kept.
MaxCopies == 2

\* document.body.scrollHeight and window.innerHeight as the page reports them.
PageHeight == 4
ViewportHeight == 2

None == <<>>

(***************************************************************************)
(* A list entry (li) of the result page.  ok: the entry has the elements   *)
(* extraction dereferences (heading span, time, img with src); src: the    *)
(* path of the image URL, a sequence of segments, each a sequence of its   *)
(* dot-separated parts; srcset: "eager" (a resizer URL is present from the *)
(* start), "lazy" (it appears once the lazy loader has reached the entry), *)
(* "none" (absent or not matching the resizer pattern).                    *)
(***************************************************************************)
Li(date, title, base, srcset) ==
    [ok |-> TRUE, date |-> date, title |-> title, alt |-> "alt",
     src |-> << <<"media">>, <<base, "jpg">> >>, srcset |-> srcset]

LiBroken ==
    [ok |-> FALSE, date |-> 2, title |-> "t0", alt |-> "alt",
     src |-> << <<"media">>, <<"x", "jpg">> >>, srcset |-> "none"]

LiLazy == Li(2, "t1", "a", "lazy")
LiShared == Li(1, "t2", "a", "eager")      \* another post with the image of LiLazy
LiNoSrcset == Li(2, "t3", "c", "none")
LiFails == Li(1, "t4", "d", "eager")       \* its resized URL answers 404
LiOld == Li(0, "t5", "e", "eager")

Entries == {LiLazy, LiShared, LiNoSrcset, LiFails, LiOld, LiBroken}

\* Every sequence of pages, each of at least one entry, of at most n entries
\* in all.
RECURSIVE PagesOf(_)
PagesOf(n) ==
    {<<>>} \cup UNION {{<<b>> \o w : w \in PagesOf(n - Len(b))} :
                       b \in UNION {[1..k -> Entries] : k \in 1..n}}

\* The generated walks, with the cutoff date between the oldest and the
\* newest entry.
Generated == [batches : PagesOf(MaxEntries) \ {<<>>}, cutoff : {1}]

\* The end-to-end walk: 3 pages of 5 entries, newest first, dates 15 down to 1,
\* every entry with its own image; the cutoff makes entry 12 (date 4) the
\* first one that is too old. The srcset of entry 11 is filled in lazily, so
\* that the cutoff can be met while a fetch is still to be dispatched.
E2EDate(n) == 16 - n
E2EName == <<"p01", "p02", "p03", "p04", "p05", "p06", "p07", "p08", "p09", "p10",
             "p11", "p12", "p13", "p14", "p15">>
E2ELi(n) == Li(E2EDate(n), E2EName[n], E2EName[n], IF n = 11 THEN "lazy" ELSE "eager")
E2EBatches == [b \in 1..3 |-> [i \in 1..5 |-> E2ELi(5 * (b - 1) + i)]]
E2E == [batches |-> E2EBatches, cutoff |-> 5]

Walks == Generated \cup {E2E}

(***************************************************************************)
(* Extraction of one list entry (extract_information_from_list_item).      *)
(***************************************************************************)
\* li.find(...) returns None for a missing element and the attribute access
\* on it raises.
ExtractionRaises(li) == ~li.ok

\* image_link.split('/')[-1] and img_filename.split('.')[0]
img_filename_of(src) == src[Len(src)]
img_basename_of(src) == img_filename_of(src)[1]

\* The last srcset candidate, matched against the resizer pattern and rebuilt
\* with width=480; None when there is no srcset or it does not match.
resized_link_of(li, isloaded) ==
    IF li.srcset = "eager" \/ (li.srcset = "lazy" /\ isloaded)
    THEN <<img_filename_of(li.src)[1], img_filename_of(li.src)[2], 480>>
    ELSE None

extract_information_from_list_item(li, isloaded) ==
    [date |-> li.date,
     title |-> li.title,
     description |-> li.alt,
     img_link |-> li.src,
     img_basename |-> img_basename_of(li.src),
     img_filename |-> img_filename_of(li.src),
     img_resized_link |-> resized_link_of(li, isloaded)]

(***************************************************************************)
(* One extraction pass (fetch_all_new_image_links).                        *)
(***************************************************************************)
Count(s, x) == Cardinality({i \in DOMAIN s : s[i] = x})

\* posts.append(row)
AppendPost(ps, row) == IF Count(ps, row) < MaxCopies THEN Append(ps, row) ELSE ps

IsBeforeCutoff_Reversed(row, cutoff) == row.date > cutoff

\* row.get('date') < cutoff_date
IsBeforeCutoff(row, cutoff) == row.date < cutoff

\* The row is recorded and its fetch dispatched before the cutoff test.
ProcessRow_TestsCutoffLast(st, row, cutoff) ==
    LET dispatch == /\ row.img_basename \notin st.done_basenames
                    /\ row.img_resized_link # None
    IN [st EXCEPT
           !.posts = AppendPost(@, row),
           !.basenames = @ \cup {row.img_basename},
           !.done_basenames = IF dispatch THEN @ \cup {row.img_basename} ELSE @,
           !.created = IF dispatch THEN Append(@, row.img_resized_link) ELSE @,
           !.ret = IF IsBeforeCutoff(row, cutoff) THEN "True" ELSE @]

\* basenames records only the rows whose fetch is not dispatched.
ProcessRow_SeenOnlyIfNotDispatched(st, row, cutoff) ==
    IF IsBeforeCutoff(row, cutoff)
    THEN [st EXCEPT !.ret = "True"]
    ELSE LET dispatch == /\ row.img_basename \notin st.done_basenames
                         /\ row.img_resized_link # None
         IN [st EXCEPT
                !.posts = AppendPost(@, row),
                !.basenames = IF dispatch THEN @ ELSE @ \cup {row.img_basename},
                !.done_basenames = IF dispatch THEN @ \cup {row.img_basename} ELSE @,
                !.created = IF dispatch THEN Append(@, row.img_resized_link) ELSE @]

\* A fetch is dispatched for every row with a resized link.
ProcessRow_NoDoneCheck(st, row, cutoff) ==
    IF IsBeforeCutoff(row, cutoff)
    THEN [st EXCEPT !.ret = "True"]
    ELSE LET dispatch == row.img_resized_link # None
         IN [st EXCEPT
                !.posts = AppendPost(@, row),
                !.basenames = @ \cup {row.img_basename},
                !.done_basenames = IF dispatch THEN @ \cup {row.img_basename} ELSE @,
                !.created = IF dispatch THEN Append(@, row.img_resized_link) ELSE @]

\* The body of the for loop for one extracted row. st.ret is the value the
\* function returns once it is decided, "run" while the loop goes on;
\* st.created lists the resized links handed to task_group.create_task.
ProcessRow(st, row, cutoff) ==
    IF IsBeforeCutoff(row, cutoff)
    THEN [st EXCEPT !.ret = "True"]
    ELSE LET dispatch == /\ row.img_basename \notin st.done_basenames
                         /\ row.img_resized_link # None
         IN [st EXCEPT
                !.posts = AppendPost(@, row),
                !.basenames = @ \cup {row.img_basename},
                !.done_basenames = IF dispatch THEN @ \cup {row.img_basename} ELSE @,
                !.created = IF dispatch THEN Append(@, row.img_resized_link) ELSE @]

RECURSIVE fetch_all_new_image_links(_, _, _, _, _)
fetch_all_new_image_links(dom, ld, cutoff, i, st) ==
    IF st.ret # "run" THEN st
    ELSE IF i > Len(dom) THEN [st EXCEPT !.ret = "False"]
    ELSE IF ExtractionRaises(dom[i]) THEN [st EXCEPT !.ret = "raise"]
    ELSE fetch_all_new_image_links(dom, ld, cutoff, i + 1,
             ProcessRow(st, extract_information_from_list_item(dom[i], i \in ld), cutoff))

(***************************************************************************)
(* fetch_resized_image: the in-page fetch raises unless response.ok.       *)
(***************************************************************************)
ServerStatus(link) == IF link[1] = "d" THEN 404 ELSE 200
ResponseOk(status) == status >= 200 /\ status <= 299

(***************************************************************************)
(* Aggregation (lines 158-162).                                            *)
(***************************************************************************)
\* img_resized_link is kept as well.
Crop_KeepsResizedLink(post) ==
    [date |-> post.date, title |-> post.title, description |-> post.description,
     img_filename |-> post.img_filename, img_resized_link |-> post.img_resized_link]

\* The title and the description change places.
Crop_SwapsTitleAndDescription(post) ==
    [date |-> post.date, title |-> post.description, description |-> post.title,
     img_filename |-> post.img_filename]

\* img_filename is not among the dropped keys.
Crop(post) ==
    [date |-> post.date, title |-> post.title, description |-> post.description,
     img_filename |-> post.img_filename]

posts_unique_of(ps) == {Crop(ps[i]) : i \in DOMAIN ps}

MaxDateOf_Min(S) == CHOOSE d \in {x.date : x \in S} : \A y \in S : y.date >= d

MaxDateOf(S) == CHOOSE d \in {x.date : x \in S} : \A y \in S : y.date <= d

\* sorted(..., key=date, reverse=True) over the list a set was turned into: the
\* order among equal dates is the set's iteration order, which is arbitrary.
RECURSIVE SortedByDateDesc(_)
SortedByDateDesc(S) ==
    IF S = {} THEN {<<>>}
    ELSE UNION {{<<x>> \o s : s \in SortedByDateDesc(S \ {x})} :
                x \in {y \in S : y.date = MaxDateOf(S)}}

(***************************************************************************)
(* The response listener (response_handler).  A URL is what the resizer    *)
(* pattern looks at: kind "resizer" when scheme, host, path prefix and the *)
(* auth, width and quality parameters are those of the pattern, "other"    *)
(* for any other URL; fault says what fails while the response is stored:  *)
(* "open" (aio_open raises), "body" (response.body() raises), "write"     *)
(* (f.write raises), "none".                                               *)
(***************************************************************************)
Url(kind, base, ext, width) ==
    [kind |-> kind, basename |-> base, ext |-> ext, width |-> width]

Response(url, body, fault) == [url |-> url, body |-> body, fault |-> fault]

NoResponse == Response(Url("none", "", "", 0), "", "none")

Responses ==
    {Response(Url("resizer", "a", "jpg", 400), b, f) :
        b \in {"b1", "b2"}, f \in {"none", "open", "body", "write"}}
    \cup {Response(Url("resizer", "c", "jpg", 480), "b1", "none"),
          Response(Url("resizer", "a", "jpg", 399), "b1", "none"),
          Response(Url("resizer", "a", "webp", 480), "b1", "none"),
          Response(Url("other", "a", "jpg", 480), "b1", "none")}

\* re.match(pattern, url): the groups (basename, ext, width), None if the URL
\* does not match.
url_match(url) ==
    IF url.kind = "resizer" /\ url.ext \in {"jpg", "png", "gif"}
    THEN <<url.basename, url.ext, url.width>>
    ELSE None

MinWidth == 400

\* Only responses wider than the threshold are stored.
response_handler_try_StrictlyWider(resp, st) ==
    LET m == url_match(resp.url)
    IN IF m = None
       THEN [storage |-> st, img_name |-> None, raised |-> TRUE]
       ELSE IF m[3] > MinWidth
       THEN LET name == <<m[1], m[2]>>
            IN IF resp.fault = "open"
               THEN [storage |-> st, img_name |-> name, raised |-> TRUE]
               ELSE IF resp.fault \in {"body", "write"}
               THEN [storage |-> (name :> "") @@ st, img_name |-> name, raised |-> TRUE]
               ELSE [storage |-> (name :> resp.body) @@ st, img_name |-> name,
                     raised |-> FALSE]
       ELSE [storage |-> st, img_name |-> None, raised |-> FALSE]

\* The try block: the new storage, the img_name computed and whether an
\* exception ended the block. url_match.groups() is called before url_match
\* is tested, so a URL that does not match raises; aio_open(img_name, 'wb')
\* truncates the file before response.body() is awaited.
response_handler_try(resp, st) ==
    LET m == url_match(resp.url)
    IN IF m = None
       THEN [storage |-> st, img_name |-> None, raised |-> TRUE]
       ELSE IF m[3] >= MinWidth
       THEN LET name == <<m[1], m[2]>>
            IN IF resp.fault = "open"
               THEN [storage |-> st, img_name |-> name, raised |-> TRUE]
               ELSE IF resp.fault \in {"body", "write"}
               THEN [storage |-> (name :> "") @@ st, img_name |-> name, raised |-> TRUE]
               ELSE [storage |-> (name :> resp.body) @@ st, img_name |-> name,
                     raised |-> FALSE]
       ELSE [storage |-> st, img_name |-> None, raised |-> FALSE]

\* The exception of the try block leaves the handler.
response_handler_NoExcept(resp, st) == response_handler_try(resp, st)

\* except Exception: pass
response_handler(resp, st) == [response_handler_try(resp, st) EXCEPT !.raised = FALSE]

(***************************************************************************)
(* The cutoff date (thoughtful_automation_challenge, lines 41-57).         *)
(***************************************************************************)
months_offset_of(n) == IF n < 1 THEN 0 ELSE n - 1

\* The year is left as it is when the month wraps to 12.
cutoff_date_of_NoYearFix(t, n) ==
    LET off == months_offset_of(n)
        cutoff_month == (t.month - off) % 12
        cutoff_year == t.year + ((t.month - off) \div 12)
    IN IF cutoff_month = 0
       THEN [year |-> cutoff_year, month |-> 12, day |-> 1]
       ELSE [year |-> cutoff_year, month |-> cutoff_month, day |-> 1]

\* Python's % and // with a positive divisor: the remainder is never
\* negative and the quotient is rounded down, as % and \div are here.
cutoff_date_of(t, n) ==
    LET off == months_offset_of(n)
        cutoff_month == (t.month - off) % 12
        cutoff_year == t.year + ((t.month - off) \div 12)
    IN IF cutoff_month = 0
       THEN [year |-> cutoff_year - 1, month |-> 12, day |-> 1]
       ELSE [year |-> cutoff_year, month |-> cutoff_month, day |-> 1]

VARIABLES
    batches,                \* input: the pages the site serves, in order
    cutoff_date,            \* input: async_browsing's cutoff_date
    pc,                     \* where the main flow is suspended
    pagenum,
    limit_reached,
    posts,
    imgs_basenames,
    imgs_basenames_done,
    tasks,                  \* the TaskGroup's tasks, in creation order
    aborting,               \* TaskGroup._aborting
    parent_cancel_requested,
    errors,                 \* TaskGroup._errors is not empty
    exc,                    \* the exception in flight in the main flow
    height_to_be_scrolled,
    window_inner_height,
    scroll_dir,
    scroll_y,               \* window.scrollY
    random_scroll,          \* the offset of the last scroll step
    loaded,                 \* entries of the page the lazy loader has reached
    sorted_posts,
    output_payload,
    outcome,                \* how async_browsing ended
    storage,                \* the files under output/ that response_handler wrote
    response,               \* args[0] of the latest call of response_handler
    img_name,               \* the file that call opened, None if it opened none
    unhandled,              \* an exception has left response_handler
    today,                  \* input: datetime.today(), its year and month
    months                  \* input: the payload's months

vars == <<batches, cutoff_date, pc, pagenum, limit_reached, posts, imgs_basenames,
          imgs_basenames_done, tasks, aborting, parent_cancel_requested, errors, exc,
          height_to_be_scrolled, window_inner_height, scroll_dir, scroll_y,
          random_scroll, loaded, sorted_posts, output_payload, outcome,
          storage, response, img_name, unhandled, today, months>>

\* What the walk itself never writes: the response listener's state and the
\* inputs of the cutoff computation.
others == <<storage, response, img_name, unhandled, today, months>>

\* What the walk writes.
walk == <<batches, cutoff_date, pc, pagenum, limit_reached, posts, imgs_basenames,
          imgs_basenames_done, tasks, aborting, parent_cancel_requested, errors, exc,
          height_to_be_scrolled, window_inner_height, scroll_dir, scroll_y,
          random_scroll, loaded, sorted_posts, output_payload, outcome>>

dom == batches[pagenum]

Pending == {t \in DOMAIN tasks : tasks[t].state = "pending"}

\* TaskGroup._abort: cancel every task that is not done yet.
Abort(ts) == [t \in DOMAIN ts |->
                 IF ts[t].state = "pending" THEN [ts[t] EXCEPT !.state = "cancelled"] ELSE ts[t]]

\* task_group.create_task(fetch_resized_image(page, link)) for each link
NewTasks(links) == [k \in DOMAIN links |-> [link |-> links[k], state |-> "pending"]]

ScrollLoopExit_Subset(seen, done) == done \subseteq seen

\* imgs_basenames == imgs_basenames_done (line 127)
ScrollLoopExit(seen, done) == seen = done

AfterScrollLoop_IgnoresLimit(limit) == "next"

\* Lines 138-147 once the scroll loop has broken: leave the pagination loop
\* when the last pass reported the cutoff, else go for the next page.
AfterScrollLoop(limit) == IF limit THEN "aexit" ELSE "next"

\* The browser keeps window.scrollY inside the scrollable range.
ClampScroll(y) == IF y < 0 THEN 0
                  ELSE IF y > PageHeight - ViewportHeight THEN PageHeight - ViewportHeight
                  ELSE y

AtExtreme_PastTheEnd(y, inner, height) == y + inner > height \/ y = 0

\* scroll_y + window_inner_height >= height_to_be_scrolled or scroll_y == 0
AtExtreme(y, inner, height) == y + inner >= height \/ y = 0

Init ==
    /\ \E w \in Walks : batches = w.batches /\ cutoff_date = w.cutoff
    /\ pc = "batch"
    /\ pagenum = 0
    /\ limit_reached = FALSE
    /\ posts = <<>>
    /\ imgs_basenames = {}
    /\ imgs_basenames_done = {}
    /\ tasks = <<>>
    /\ aborting = FALSE
    /\ parent_cancel_requested = FALSE
    /\ errors = FALSE
    /\ exc = "none"
    /\ height_to_be_scrolled = 0
    /\ window_inner_height = 0
    /\ scroll_dir = 1
    /\ scroll_y = 0
    /\ random_scroll = 0
    /\ loaded = {}
    /\ sorted_posts = <<>>
    /\ output_payload = <<>>
    /\ outcome = "running"
    /\ storage = <<>>
    /\ response = NoResponse
    /\ img_name = None
    /\ unhandled = FALSE
    /\ today = [year |-> 2026, month |-> 11]
    /\ months = 1

\* Lines 114-122: the head of one iteration of the pagination loop.
BatchStart ==
    /\ pc = "batch"
    /\ ~parent_cancel_requested
    /\ pagenum' = pagenum + 1
    /\ height_to_be_scrolled' = PageHeight
    /\ window_inner_height' = ViewportHeight
    /\ scroll_dir' = 1
    /\ pc' = "extract"
    /\ UNCHANGED <<others, batches, cutoff_date, limit_reached, posts, imgs_basenames,
                   imgs_basenames_done, tasks, aborting, parent_cancel_requested, errors,
                   exc, scroll_y, random_scroll, loaded, sorted_posts, output_payload,
                   outcome>>

\* Lines 124-128 and, when the scroll loop breaks, 138-140: one extraction pass
\* and the two tests that follow it. An exception of the pass leaves the
\* async with body, whose __aexit__ aborts the group before it waits.
ExtractPass ==
    /\ pc = "extract"
    /\ ~parent_cancel_requested
    /\ LET r == fetch_all_new_image_links(dom, loaded, cutoff_date, 1,
                    [posts |-> posts, basenames |-> imgs_basenames,
                     done_basenames |-> imgs_basenames_done, created |-> <<>>,
                     ret |-> "run"])
       IN /\ posts' = r.posts
          /\ imgs_basenames' = r.basenames
          /\ imgs_basenames_done' = r.done_basenames
          /\ IF r.ret = "raise"
             THEN /\ tasks' = Abort(tasks \o NewTasks(r.created))
                  /\ aborting' = TRUE
                  /\ exc' = "extraction"
                  /\ pc' = "aexit"
                  /\ UNCHANGED limit_reached
             ELSE /\ tasks' = tasks \o NewTasks(r.created)
                  /\ limit_reached' = (r.ret = "True")
                  /\ pc' = IF ~ScrollLoopExit(r.basenames, r.done_basenames) THEN "scroll"
                           ELSE AfterScrollLoop(r.ret = "True")
                  /\ UNCHANGED <<aborting, exc>>
    /\ UNCHANGED <<others, batches, cutoff_date, pagenum, parent_cancel_requested, errors,
                   height_to_be_scrolled, window_inner_height, scroll_dir, scroll_y,
                   random_scroll, loaded, sorted_posts, output_payload, outcome>>

\* Lines 129-136: one scroll step.
ScrollStep ==
    /\ pc = "scroll"
    /\ ~parent_cancel_requested
    /\ \E r \in 1..window_inner_height :
          LET y == ClampScroll(scroll_y + scroll_dir * r)
          IN /\ random_scroll' = r
             /\ scroll_y' = y
             /\ scroll_dir' = IF AtExtreme(y, window_inner_height, height_to_be_scrolled)
                              THEN scroll_dir * (-1) ELSE scroll_dir
    /\ pc' = "extract"
    /\ UNCHANGED <<others, batches, cutoff_date, pagenum, limit_reached, posts, imgs_basenames,
                   imgs_basenames_done, tasks, aborting, parent_cancel_requested, errors,
                   exc, height_to_be_scrolled, window_inner_height, loaded, sorted_posts,
                   output_payload, outcome>>

\* The two sets are emptied when the next page is opened.
NextStories_ClearsSets ==
    /\ pc = "next"
    /\ IF pagenum < Len(batches) /\ ~parent_cancel_requested
       THEN /\ pc' = "batch"
            /\ loaded' = {}
            /\ \E y \in 0..(PageHeight - ViewportHeight) : scroll_y' = y
            /\ imgs_basenames' = {}
            /\ imgs_basenames_done' = {}
       ELSE /\ pc' = "aexit"
            /\ UNCHANGED <<loaded, scroll_y, imgs_basenames, imgs_basenames_done>>
    /\ UNCHANGED <<others, batches, cutoff_date, pagenum, limit_reached, posts, tasks, aborting,
                   parent_cancel_requested, errors, exc, height_to_be_scrolled,
                   window_inner_height, scroll_dir, random_scroll, sorted_posts,
                   output_payload, outcome>>

\* Lines 142-147: click "Next stories"; the bare except breaks the loop on any
\* exception of the click, the cancellation of the main flow included.
NextStories ==
    /\ pc = "next"
    /\ IF pagenum < Len(batches) /\ ~parent_cancel_requested
       THEN /\ pc' = "batch"
            /\ loaded' = {}
            /\ \E y \in 0..(PageHeight - ViewportHeight) : scroll_y' = y
       ELSE /\ pc' = "aexit"
            /\ UNCHANGED <<loaded, scroll_y>>
    /\ UNCHANGED <<others, batches, cutoff_date, pagenum, limit_reached, posts, imgs_basenames,
                   imgs_basenames_done, tasks, aborting, parent_cancel_requested, errors,
                   exc, height_to_be_scrolled, window_inner_height, scroll_dir,
                   random_scroll, sorted_posts, output_payload, outcome>>

\* The CancelledError the group sends to its parent arrives at the await the
\* main flow is suspended in and leaves the async with body.
MainCancelled ==
    /\ pc \in {"batch", "extract", "scroll"}
    /\ parent_cancel_requested
    /\ exc' = "CancelledError"
    /\ pc' = "aexit"
    /\ UNCHANGED <<others, batches, cutoff_date, pagenum, limit_reached, posts, imgs_basenames,
                   imgs_basenames_done, tasks, aborting, parent_cancel_requested, errors,
                   height_to_be_scrolled, window_inner_height, scroll_dir, scroll_y,
                   random_scroll, loaded, sorted_posts, output_payload, outcome>>

\* The page's lazy loader fills in the srcset of an entry.
LazyLoad ==
    /\ pc = "extract"
    /\ \E i \in DOMAIN dom :
          /\ dom[i].srcset = "lazy"
          /\ i \notin loaded
          /\ loaded' = loaded \cup {i}
    /\ UNCHANGED <<others, batches, cutoff_date, pc, pagenum, limit_reached, posts, imgs_basenames,
                   imgs_basenames_done, tasks, aborting, parent_cancel_requested, errors,
                   exc, height_to_be_scrolled, window_inner_height, scroll_dir, scroll_y,
                   random_scroll, sorted_posts, output_payload, outcome>>

\* fetch_resized_image returns: the response was ok.
TaskDone(t) ==
    /\ tasks[t].state = "pending"
    /\ ResponseOk(ServerStatus(tasks[t].link))
    /\ tasks' = [tasks EXCEPT ![t].state = "done"]
    /\ UNCHANGED <<others, batches, cutoff_date, pc, pagenum, limit_reached, posts, imgs_basenames,
                   imgs_basenames_done, aborting, parent_cancel_requested, errors, exc,
                   height_to_be_scrolled, window_inner_height, scroll_dir, scroll_y,
                   random_scroll, loaded, sorted_posts, output_payload, outcome>>

\* fetch_resized_image raises: TaskGroup._on_task_done records the error,
\* aborts the group and cancels the parent task.
TaskFail(t) ==
    /\ tasks[t].state = "pending"
    /\ ~ResponseOk(ServerStatus(tasks[t].link))
    /\ errors' = TRUE
    /\ IF ~aborting /\ ~parent_cancel_requested
       THEN /\ tasks' = Abort([tasks EXCEPT ![t].state = "failed"])
            /\ aborting' = TRUE
            /\ parent_cancel_requested' = TRUE
       ELSE /\ tasks' = [tasks EXCEPT ![t].state = "failed"]
            /\ UNCHANGED <<aborting, parent_cancel_requested>>
    /\ UNCHANGED <<others, batches, cutoff_date, pc, pagenum, limit_reached, posts, imgs_basenames,
                   imgs_basenames_done, exc, height_to_be_scrolled, window_inner_height,
                   scroll_dir, scroll_y, random_scroll, loaded, sorted_posts,
                   output_payload, outcome>>

\* TaskGroup.__aexit__: wait until no task is left, then raise the group of
\* errors if the body raised or a task failed.
AExit ==
    /\ pc = "aexit"
    /\ Pending = {}
    /\ IF errors \/ exc # "none"
       THEN exc' = "ExceptionGroup" /\ pc' = "except"
       ELSE exc' = exc /\ pc' = "process"
    /\ UNCHANGED <<others, batches, cutoff_date, pagenum, limit_reached, posts, imgs_basenames,
                   imgs_basenames_done, tasks, aborting, parent_cancel_requested, errors,
                   height_to_be_scrolled, window_inner_height, scroll_dir, scroll_y,
                   random_scroll, loaded, sorted_posts, output_payload, outcome>>

\* Lines 151-192: aggregate the posts and write the output.
DataProcessing ==
    /\ pc = "process"
    /\ \E s \in SortedByDateDesc(posts_unique_of(posts)) :
          /\ sorted_posts' = s
          /\ output_payload' = ("filename" :> "xlsx") @@ ("results_found" :> Len(s))
    /\ pc' = "finally"
    /\ UNCHANGED <<others, batches, cutoff_date, pagenum, limit_reached, posts, imgs_basenames,
                   imgs_basenames_done, tasks, aborting, parent_cancel_requested, errors,
                   exc, height_to_be_scrolled, window_inner_height, scroll_dir, scroll_y,
                   random_scroll, loaded, outcome>>

\* Lines 194-197: record the error and re-raise.
ExceptHandler ==
    /\ pc = "except"
    /\ output_payload' = ("error" :> exc) @@ output_payload
    /\ pc' = "finally"
    /\ UNCHANGED <<others, batches, cutoff_date, pagenum, limit_reached, posts, imgs_basenames,
                   imgs_basenames_done, tasks, aborting, parent_cancel_requested, errors,
                   exc, height_to_be_scrolled, window_inner_height, scroll_dir, scroll_y,
                   random_scroll, loaded, sorted_posts, outcome>>

\* Lines 199-201: close the browser and return output_payload; a return in a
\* finally clause discards the exception in flight.
Finally ==
    /\ pc = "finally"
    /\ exc' = "none"
    /\ outcome' = "returned"
    /\ pc' = "done"
    /\ UNCHANGED <<others, batches, cutoff_date, pagenum, limit_reached, posts, imgs_basenames,
                   imgs_basenames_done, tasks, aborting, parent_cancel_requested, errors,
                   height_to_be_scrolled, window_inner_height, scroll_dir, scroll_y,
                   random_scroll, loaded, sorted_posts, output_payload>>

MainFlow ==
    \/ BatchStart
    \/ ExtractPass
    \/ ScrollStep
    \/ NextStories
    \/ MainCancelled
    \/ AExit
    \/ DataProcessing
    \/ ExceptHandler
    \/ Finally

Next ==
    \/ MainFlow
    \/ \E t \in DOMAIN tasks : TaskDone(t)
    \/ \E t \in DOMAIN tasks : TaskFail(t)
    \/ LazyLoad

Spec == Init /\ [][Next]_vars

(***************************************************************************)
(* The walk with the response listener of line 97 attached: the browser    *)
(* calls it for every response it sees, at any time until it is closed.    *)
(***************************************************************************)
ResponseHandler(resp) ==
    /\ pc # "done"
    /\ LET r == response_handler(resp, storage)
       IN /\ storage' = r.storage
          /\ img_name' = r.img_name
          /\ unhandled' = (unhandled \/ r.raised)
    /\ response' = resp
    /\ UNCHANGED <<walk, today, months>>

\* Walks that between them take every step of the walk.
CapturePages ==
    {<< <<LiLazy>>, <<LiShared>> >>,
     << <<LiFails>>, <<LiLazy>> >>,
     << <<LiShared, LiOld>> >>,
     << <<LiBroken>> >>}

CaptureInit == Init /\ batches \in CapturePages

CaptureNext ==
    \/ Next
    \/ \E resp \in Responses : ResponseHandler(resp)

CaptureSpec == CaptureInit /\ [][CaptureNext]_vars

(***************************************************************************)
(* The aggregation of lines 158-162 on its own, over every accumulator of  *)
(* at most MaxPosts rows, and applied a second time to its own output.     *)
(***************************************************************************)
MaxPosts == 3

\* LiLazy with another image file: the same date, title and description.
LiOtherImage == Li(2, "t1", "b", "eager")

\* Rows as extraction produces them: an entry before and after its srcset is
\* filled in, another post with the same image, the same post with another
\* image file, another post of the same date.
AccRows ==
    {extract_information_from_list_item(LiLazy, FALSE),
     extract_information_from_list_item(LiLazy, TRUE),
     extract_information_from_list_item(LiShared, TRUE),
     extract_information_from_list_item(LiOtherImage, TRUE),
     extract_information_from_list_item(LiNoSrcset, FALSE)}

AggInit ==
    /\ posts \in UNION {[1..k -> AccRows] : k \in 0..MaxPosts}
    /\ pc = "aggregate"
    /\ batches = <<>>
    /\ cutoff_date = 1
    /\ pagenum = 0
    /\ limit_reached = FALSE
    /\ imgs_basenames = {}
    /\ imgs_basenames_done = {}
    /\ tasks = <<>>
    /\ aborting = FALSE
    /\ parent_cancel_requested = FALSE
    /\ errors = FALSE
    /\ exc = "none"
    /\ height_to_be_scrolled = 0
    /\ window_inner_height = 0
    /\ scroll_dir = 1
    /\ scroll_y = 0
    /\ random_scroll = 0
    /\ loaded = {}
    /\ sorted_posts = <<>>
    /\ output_payload = <<>>
    /\ outcome = "running"
    /\ storage = <<>>
    /\ response = NoResponse
    /\ img_name = None
    /\ unhandled = FALSE
    /\ today = [year |-> 2026, month |-> 11]
    /\ months = 1

\* posts_crop, posts_unique, sorted_posts
Aggregate ==
    /\ pc = "aggregate"
    /\ \E s \in SortedByDateDesc(posts_unique_of(posts)) : sorted_posts' = s
    /\ pc' = "aggregated"
    /\ UNCHANGED <<others, batches, cutoff_date, pagenum, limit_reached, posts,
                   imgs_basenames, imgs_basenames_done, tasks, aborting,
                   parent_cancel_requested, errors, exc, height_to_be_scrolled,
                   window_inner_height, scroll_dir, scroll_y, random_scroll, loaded,
                   output_payload, outcome>>

\* The same three lines with the first result as the accumulator.
Reaggregate ==
    /\ pc = "aggregated"
    /\ posts' = sorted_posts
    /\ \E s \in SortedByDateDesc(posts_unique_of(sorted_posts)) : sorted_posts' = s
    /\ pc' = "reaggregated"
    /\ UNCHANGED <<others, batches, cutoff_date, pagenum, limit_reached,
                   imgs_basenames, imgs_basenames_done, tasks, aborting,
                   parent_cancel_requested, errors, exc, height_to_be_scrolled,
                   window_inner_height, scroll_dir, scroll_y, random_scroll, loaded,
                   output_payload, outcome>>

AggNext == Aggregate \/ Reaggregate

AggSpec == AggInit /\ [][AggNext]_vars

(***************************************************************************)
(* The input processing of lines 41-57 on its own, for every month of three *)
(* years and every months from -1 to MaxMonths.                            *)
(***************************************************************************)
MaxMonths == 40

CutoffInit ==
    /\ today \in [year : 2024..2026, month : 1..12]
    /\ months \in (-1)..MaxMonths
    /\ pc = "input"
    /\ cutoff_date = [year |-> 0, month |-> 0, day |-> 0]
    /\ batches = <<>>
    /\ pagenum = 0
    /\ limit_reached = FALSE
    /\ posts = <<>>
    /\ imgs_basenames = {}
    /\ imgs_basenames_done = {}
    /\ tasks = <<>>
    /\ aborting = FALSE
    /\ parent_cancel_requested = FALSE
    /\ errors = FALSE
    /\ exc = "none"
    /\ height_to_be_scrolled = 0
    /\ window_inner_height = 0
    /\ scroll_dir = 1
    /\ scroll_y = 0
    /\ random_scroll = 0
    /\ loaded = {}
    /\ sorted_posts = <<>>
    /\ output_payload = <<>>
    /\ outcome = "running"
    /\ storage = <<>>
    /\ response = NoResponse
    /\ img_name = None
    /\ unhandled = FALSE

\* Lines 46-57.
ComputeCutoff ==
    /\ pc = "input"
    /\ cutoff_date' = cutoff_date_of(today, months)
    /\ pc' = "browsing"
    /\ UNCHANGED <<others, batches, pagenum, limit_reached, posts, imgs_basenames,
                   imgs_basenames_done, tasks, aborting, parent_cancel_requested, errors,
                   exc, height_to_be_scrolled, window_inner_height, scroll_dir, scroll_y,
                   random_scroll, loaded, sorted_posts, output_payload, outcome>>

CutoffNext == ComputeCutoff

CutoffSpec == CutoffInit /\ [][CutoffNext]_vars

TaskStep == \E t \in DOMAIN tasks : TaskDone(t) \/ TaskFail(t)

\* The event loop runs the main flow and every task that is ready, and the
\* lazy loader fills in an entry that the scrolling keeps exposing.
FairSpec == Spec /\ WF_vars(MainFlow) /\ WF_vars(TaskStep) /\ SF_vars(LazyLoad)

(***************************************************************************)
(* Claims.                                                                 *)
(***************************************************************************)

\* C1: no row whose date is before the cutoff date is ever in the posts
\* accumulator, and none is in the sorted result handed to the output stage.
C1_NothingBeforeCutoff ==
    /\ \A i \in DOMAIN posts : posts[i].date >= cutoff_date
    /\ \A i \in DOMAIN sorted_posts : sorted_posts[i].date >= cutoff_date

\* A walk that met an entry older than the cutoff and produced a result.
C1_Witness ==
    /\ pc = "done"
    /\ limit_reached
    /\ Len(sorted_posts) >= 1
    /\ \E b \in DOMAIN batches : \E i \in DOMAIN batches[b] :
          batches[b][i].date < cutoff_date


\* C2 as stated: once a pass has met an entry older than the cutoff, no scroll
\* step and no extraction pass is run and no next page is started.
C2_ExitsImmediately ==
    [][limit_reached => ~(ScrollStep \/ ExtractPass \/ NextStories \/ BatchStart)]_vars

\* C2 as the code has it: once a pass has met an entry older than the cutoff
\* the walk never goes for a next page, and it scrolls and extracts again on
\* the same page only while imgs_basenames differs from imgs_basenames_done.
C2_NoNextPageAfterCutoff ==
    [][limit_reached =>
         /\ ~(NextStories \/ BatchStart)
         /\ pagenum' = pagenum
         /\ (ScrollStep \/ ExtractPass => imgs_basenames # imgs_basenames_done)]_vars

\* A pass has met the cutoff and a scroll step has followed it.
C2_Witness ==
    /\ limit_reached
    /\ pc = "extract"
    /\ random_scroll > 0


\* C3 as stated: when the results are finalized or the walk has returned,
\* every dispatched fetch task has run to completion (it returned or raised);
\* none is in flight and none was cut off.
C3_TasksRanToCompletion ==
    pc \in {"process", "except", "finally", "done"} =>
        \A t \in DOMAIN tasks : tasks[t].state \in {"done", "failed"}

\* C4 as stated: a fetch task that raised has cancelled no other task and not
\* the main flow, and the walk still ends with its result set.
C4_FetchFailureIsolated ==
    (\E t \in DOMAIN tasks : tasks[t].state = "failed") =>
        /\ ~parent_cancel_requested
        /\ \A t \in DOMAIN tasks : tasks[t].state # "cancelled"
        /\ pc = "done" => "results_found" \in DOMAIN output_payload

\* C5 as stated: under fairness of the main flow, of the tasks and of the lazy
\* loader, every walk ends.
C5_WalkEnds == <>(pc = "done")

\* C6: whenever the scroll loop has broken (the main flow goes for the next
\* page, or leaves the pagination loop with no exception in flight),
\* imgs_basenames equals imgs_basenames_done.
C6_SeenEqualsDoneAtBreak ==
    (pc = "next" \/ (pc = "aexit" /\ exc = "none")) =>
        imgs_basenames = imgs_basenames_done

\* The scroll loop of a page has broken after the lazy loader filled in an
\* entry of it, with at least one fetch dispatched.
C6_Witness ==
    /\ pc = "next"
    /\ loaded # {}
    /\ random_scroll > 0
    /\ imgs_basenames # {}


E2ELinks(n) == {resized_link_of(E2ELi(k), TRUE) : k \in 1..n}
TaskLinks == {tasks[t].link : t \in DOMAIN tasks}

\* C7 as stated: the end-to-end walk returns 11 unique items, has recorded
\* nothing of entries 13 to 15, and the fetch tasks it dispatched and awaited
\* are those of entries 1 to 12.
C7_TasksOfEntries1To12 ==
    (batches = E2EBatches /\ pc = "done") =>
        /\ Len(sorted_posts) = 11
        /\ \A i \in DOMAIN posts : \E k \in 1..12 : posts[i].title = E2EName[k]
        /\ TaskLinks = E2ELinks(12)
        /\ Pending = {}

\* C7 as the code has it: the end-to-end walk never records or dispatches
\* anything of entries 12 to 15; when it leaves the task group it is on page 3
\* and the tasks it dispatched are those of entries 1 to 11, each of which has
\* returned; it returns normally with exactly 11 unique items.
C7_TasksOfEntries1To11 ==
    batches = E2EBatches =>
        /\ \A i \in DOMAIN posts : \E k \in 1..11 : posts[i].title = E2EName[k]
        /\ TaskLinks \subseteq E2ELinks(11)
        /\ pc \in {"process", "finally", "done"} =>
              /\ pagenum = 3
              /\ limit_reached
              /\ TaskLinks = E2ELinks(11)
              /\ \A t \in DOMAIN tasks : tasks[t].state = "done"
        /\ pc \notin {"except"}
        /\ pc = "done" =>
              /\ outcome = "returned"
              /\ Len(sorted_posts) = 11
              /\ {sorted_posts[i].title : i \in DOMAIN sorted_posts}
                    = {E2EName[k] : k \in 1..11}
              /\ output_payload["results_found"] = 11

\* The end-to-end walk has returned.
C7_Witness ==
    /\ batches = E2EBatches
    /\ pc = "done"
    /\ Len(tasks) = 11

\* C8 as stated: both sets are empty when the scroll loop of a page starts.
C8_SetsEmptyAtBatchStart ==
    pc = "batch" => imgs_basenames = {} /\ imgs_basenames_done = {}

\* C8 as the code has it: both sets are created once, before the first page,
\* and are never emptied: they are empty when the first page starts and every
\* step keeps what they hold, the step to the next page included.
C8_SetsLiveForTheWalk ==
    /\ [](pc = "batch" /\ pagenum = 0 => imgs_basenames = {} /\ imgs_basenames_done = {})
    /\ [][/\ imgs_basenames \subseteq imgs_basenames'
          /\ imgs_basenames_done \subseteq imgs_basenames_done'
          /\ NextStories =>
                imgs_basenames' = imgs_basenames /\ imgs_basenames_done' = imgs_basenames_done]_vars

\* A later page starts with identities of an earlier page in both sets.
C8_Witness ==
    /\ pc = "batch"
    /\ pagenum >= 1
    /\ imgs_basenames_done # {}
    /\ imgs_basenames # {}

\* C9: imgs_basenames_done is a subset of imgs_basenames in every state.
C9_DoneSubsetOfSeen == imgs_basenames_done \subseteq imgs_basenames

\* A fetch has been dispatched while another identity seen has none.
C9_Witness ==
    /\ imgs_basenames_done # {}
    /\ imgs_basenames_done # imgs_basenames
    /\ tasks # <<>>

\* C10 as stated: a walk in which extraction or the driver raised ends by
\* raising to its caller, not by returning a payload.
C10_ErrorPropagates ==
    (pc = "done" /\ "error" \in DOMAIN output_payload) => outcome = "raised"

\* C11 as stated: an entry whose extraction fails is isolated: the pass does
\* not raise because of it and a walk in which no fetch failed ends with no
\* error recorded.
C11_BadEntryIsolated ==
    /\ exc # "extraction"
    /\ (pc = "done" /\ ~errors) => "error" \notin DOMAIN output_payload

\* C12 as stated: when the walk has left the pagination loop because there is
\* no further batch (no cutoff was met, no exception is in flight and the last
\* page is the current one), the join of the task group is followed by the
\* aggregation of the accumulated items, not by the error handler.
C12_NoNextBatchEndsNormally ==
    [][(AExit /\ ~limit_reached /\ exc = "none" /\ pagenum = Len(batches))
          => pc' = "process"]_vars

\* C13: no invocation of response_handler ends with an exception, whatever
\* the response and whatever fails in it, and an invocation changes nothing
\* of the walk (imgs_basenames, imgs_basenames_done, posts, pagenum, the
\* tasks, the position of the main flow), wherever it is interleaved.
C13_HandlerFailureSwallowed ==
    /\ [](~unhandled)
    /\ [][(\E resp \in Responses : ResponseHandler(resp)) => walk' = walk]_vars

\* The handler has failed on a response (no match, or a fault while storing)
\* in the middle of the scroll loop of a page with a fetch dispatched.
C13_Witness ==
    /\ pc = "scroll"
    /\ tasks # <<>>
    /\ response # NoResponse
    /\ response_handler_try(response, <<>>).raised

\* C14: an invocation of response_handler opens a storage entry if and only
\* if the URL of the response matches the resizer pattern and its width is at
\* least 400; the entry is named by the basename and the extension alone; no
\* other entry changes, and nothing changes for a response that does not
\* match or is narrower; a response stored without a fault leaves its body
\* in the entry, whatever the entry held before.
C14_WritesIffMatchedAndWide ==
    [][\A resp \in Responses : ResponseHandler(resp) =>
          LET hit == /\ resp.url.kind = "resizer"
                     /\ resp.url.ext \in {"jpg", "png", "gif"}
                     /\ resp.url.width >= 400
          IN /\ (img_name' # None) <=> hit
             /\ hit => img_name' = <<resp.url.basename, resp.url.ext>>
             /\ ~hit => storage' = storage
             /\ \A n \in DOMAIN storage :
                   n # img_name' => n \in DOMAIN storage' /\ storage'[n] = storage[n]
             /\ (hit /\ resp.fault = "none") =>
                   /\ img_name' \in DOMAIN storage'
                   /\ storage'[img_name'] = resp.body]_vars

\* Two identities are stored and the last response, of width 400, has left
\* the second of its two bodies in its entry.
C14_Witness ==
    /\ DOMAIN storage = {<<"a", "jpg">>, <<"c", "jpg">>}
    /\ response = Response(Url("resizer", "a", "jpg", 400), "b2", "none")
    /\ storage[<<"a", "jpg">>] = "b2"
    /\ img_name = <<"a", "jpg">>

\* C15 as stated: two accumulated items collapse into one result if and only
\* if they are equal on date, title and description: there is one result for
\* each combination of the three found in the accumulator.
C15_CollapseIffEqualOnDateTitleDescription ==
    pc = "aggregated" =>
        /\ \A i, j \in DOMAIN sorted_posts :
              (/\ sorted_posts[i].date = sorted_posts[j].date
               /\ sorted_posts[i].title = sorted_posts[j].title
               /\ sorted_posts[i].description = sorted_posts[j].description) => i = j
        /\ \A i \in DOMAIN posts : \E k \in DOMAIN sorted_posts :
              /\ sorted_posts[k].date = posts[i].date
              /\ sorted_posts[k].title = posts[i].title
              /\ sorted_posts[k].description = posts[i].description

\* C15 as the code has it: two accumulated items collapse into one result if
\* and only if they are equal on date, title, description and img_filename;
\* every result stems from an accumulated item. The same entry extracted
\* before and after its srcset is filled in gives one result, and two items
\* with the same image that differ in date, title or description both remain.
C15_CollapseIffEqualOnRemainingFields ==
    pc = "aggregated" =>
        /\ \A i, j \in DOMAIN sorted_posts :
              (/\ sorted_posts[i].date = sorted_posts[j].date
               /\ sorted_posts[i].title = sorted_posts[j].title
               /\ sorted_posts[i].description = sorted_posts[j].description
               /\ sorted_posts[i].img_filename = sorted_posts[j].img_filename) => i = j
        /\ \A i \in DOMAIN posts : \E k \in DOMAIN sorted_posts :
              /\ sorted_posts[k].date = posts[i].date
              /\ sorted_posts[k].title = posts[i].title
              /\ sorted_posts[k].description = posts[i].description
              /\ sorted_posts[k].img_filename = posts[i].img_filename
        /\ \A k \in DOMAIN sorted_posts : \E i \in DOMAIN posts :
              /\ sorted_posts[k].date = posts[i].date
              /\ sorted_posts[k].title = posts[i].title
              /\ sorted_posts[k].description = posts[i].description
              /\ sorted_posts[k].img_filename = posts[i].img_filename
              /\ DOMAIN sorted_posts[k] = {"date", "title", "description", "img_filename"}

\* The accumulator holds an entry as extracted before and after its srcset was
\* filled in and another post with the same image: two results.
C15_Witness ==
    /\ pc = "aggregated"
    /\ posts = <<extract_information_from_list_item(LiLazy, FALSE),
                 extract_information_from_list_item(LiShared, TRUE),
                 extract_information_from_list_item(LiLazy, TRUE)>>
    /\ Len(sorted_posts) = 2

\* C16 as stated: the aggregation applied to its own output yields the same
\* sequence as applied once.
C16_SameSequenceTwice ==
    pc = "reaggregated" => sorted_posts = posts

\* C16 as the code has it: the aggregation applied to its own output yields
\* the same items, with the same date at every position; the sequence is the
\* same when no two items have the same date.
C16_SameItemsAndDatesTwice ==
    pc = "reaggregated" =>
        /\ Len(sorted_posts) = Len(posts)
        /\ {sorted_posts[k] : k \in DOMAIN sorted_posts} = {posts[k] : k \in DOMAIN posts}
        /\ \A k \in DOMAIN sorted_posts : sorted_posts[k].date = posts[k].date
        /\ (\A i, j \in DOMAIN posts : posts[i].date = posts[j].date => i = j)
              => sorted_posts = posts

\* The second application has put two items of the same date in the other
\* order.
C16_Witness ==
    /\ pc = "reaggregated"
    /\ Len(sorted_posts) = 3
    /\ sorted_posts # posts
    /\ sorted_posts[3].date < sorted_posts[2].date

\* C17: in the aggregation output the date of every item is at least the date
\* of the item that follows it.
C17_SortedByDateDescending ==
    pc \in {"aggregated", "reaggregated"} =>
        \A k \in DOMAIN sorted_posts :
            k + 1 \in DOMAIN sorted_posts => sorted_posts[k].date >= sorted_posts[k + 1].date

\* Three results of two dates from an accumulator that was not in date order.
C17_Witness ==
    /\ pc = "aggregated"
    /\ Len(sorted_posts) = 3
    /\ sorted_posts[1].date > sorted_posts[3].date
    /\ posts[1].date < posts[2].date

\* C18: the two heights are read when a batch is entered and at no other
\* step, and the direction is then downward; a scroll step requests between 1
\* and window_inner_height in the current direction and reverses the
\* direction exactly when the position read after it is 0 or is at least
\* height_to_be_scrolled less window_inner_height; no other step changes the
\* direction.
C18_ScrollStepContract ==
    [][/\ (pc = "batch" /\ pc' = "extract") =>
              /\ scroll_dir' = 1
              /\ height_to_be_scrolled' = PageHeight
              /\ window_inner_height' = ViewportHeight
       /\ ~(pc = "batch" /\ pc' = "extract") =>
              /\ height_to_be_scrolled' = height_to_be_scrolled
              /\ window_inner_height' = window_inner_height
       /\ (pc = "scroll" /\ pc' = "extract") =>
              /\ random_scroll' \in 1..window_inner_height
              /\ scroll_y' = ClampScroll(scroll_y + scroll_dir * random_scroll')
              /\ scroll_dir' =
                    IF scroll_y' = 0 \/ scroll_y' + window_inner_height >= height_to_be_scrolled
                    THEN 0 - scroll_dir ELSE scroll_dir
       /\ ~(pc \in {"batch", "scroll"} /\ pc' = "extract") => scroll_dir' = scroll_dir]_vars

\* The direction was reversed at the bottom and the step after it, upward by
\* 1, ended between the extremes and left the direction as it was.
C18_Witness ==
    /\ pc = "extract"
    /\ scroll_dir = -1
    /\ scroll_y = 1
    /\ random_scroll = 1

\* C19: no two fetch tasks of a walk are for the same img_basename, and the
\* basenames the tasks are for are those in imgs_basenames_done; a pass
\* dispatches a fetch only for a resized link of a row it has appended to
\* posts, and only if the basename was not in imgs_basenames_done before.
C19_OneFetchPerIdentity ==
    /\ [](/\ \A t, u \in DOMAIN tasks : tasks[t].link[1] = tasks[u].link[1] => t = u
          /\ {tasks[t].link[1] : t \in DOMAIN tasks} = imgs_basenames_done)
    /\ [][\A t \in DOMAIN tasks' \ DOMAIN tasks :
            /\ tasks'[t].link # None
            /\ tasks'[t].link[1] \notin imgs_basenames_done
            /\ \E i \in DOMAIN posts' \ DOMAIN posts :
                  posts'[i].img_resized_link = tasks'[t].link]_vars

\* On the second page an entry with the image of an entry of the first page
\* was extracted with its resized link: there is still the one fetch.
C19_Witness ==
    /\ pagenum = 2
    /\ Len(tasks) = 1
    /\ Len(posts) = 2
    /\ posts[1].img_basename = posts[2].img_basename
    /\ posts[1].img_resized_link # None
    /\ posts[2].img_resized_link # None
    /\ posts[1].title # posts[2].title

\* C20: the cutoff date is day 1 of the month that lies max(months - 1, 0)
\* months before the month of today, counting months across years; its month
\* is in 1..12.
C20_CutoffIsFirstOfMonthBefore ==
    pc = "browsing" =>
        LET off == IF months - 1 > 0 THEN months - 1 ELSE 0
            total == today.year * 12 + (today.month - 1) - off
        IN /\ cutoff_date = [year |-> total \div 12, month |-> (total % 12) + 1, day |-> 1]
           /\ cutoff_date.month \in 1..12

\* The month of today less the offset is -12: December two years back.
C20_Witness ==
    /\ pc = "browsing"
    /\ today.month = 1
    /\ months = 14
    /\ cutoff_date = [year |-> today.year - 2, month |-> 12, day |-> 1]

====
